---------------------------- MODULE Spec2Model ----------------------------
(***************************************************************************)
(* A model of the HSLuv colour library (HSLuv.js) and of the programmatic  *)
(* palette generator with its test panel (HSLuvPaletteGen.js).             *)
(*                                                                         *)
(* The scripts compute in double precision.  The model computes in decimal *)
(* floating point: a number is a pair <<m, e>> standing for m * 10^e, the  *)
(* mantissa m kept to eight significant digits, with the three values NaN, *)
(* +Infinity and -Infinity of the script engine beside them.               *)
(***************************************************************************)
EXTENDS Integers, Sequences, FiniteSets, TLC

(***************************************************************************)
(* The state.  The test panel of HSLuvPaletteGen.js:                       *)
(*   currentHSLuv, baseColour   the globals of the script                  *)
(*   panelPalette, stateFlags   TestColourPanel.data.palette / .stateFlags *)
(*   timerRunning               the panel's timer is started               *)
(*   repaintPending             repaint() was called, the paint is to come *)
(*   currentState, buttonColors the locals of the last paint               *)
(*   drawn                      what the last paint drew                   *)
(*   mouseHeld                  a mouse button is down (the pointer's state)*)
(* One call of generateButtonPalette, statement by statement:              *)
(*   genPc, genBase, genPrimary, genStates, genPalette                     *)
(* One call of a function of HSLuv.js:                                     *)
(*   libFn, libArg              the function called and its argument       *)
(*   libPc                      where the call is                          *)
(*   libMaxC                    what its calls of maxChromaForLH returned    *)
(*   libLog                     the calls of pushLine_safe made for it     *)
(*   libOut                     what it returned                           *)
(* Two threads, each in one call of maxChromaForLH, and the loop counters  *)
(* c and i they share:                                                     *)
(*   thPc, thArg, thBounds, thMin, loopC, loopI                            *)
(***************************************************************************)
VARIABLES currentHSLuv, baseColour, panelPalette, stateFlags, timerRunning,
          repaintPending, currentState, buttonColors, drawn, mouseHeld,
          genPc, genBase, genPrimary, genStates, genPalette,
          libFn, libArg, libPc, libMaxC, libLog, libOut,
          thPc, thArg, thBounds, thMin, loopC, loopI

panelVars == <<currentHSLuv, baseColour, panelPalette, stateFlags, timerRunning,
               repaintPending, currentState, buttonColors, drawn, mouseHeld>>
genVars == <<genPc, genBase, genPrimary, genStates, genPalette>>
libVars == <<libFn, libArg, libPc, libMaxC, libLog, libOut>>
thVars == <<thPc, thArg, thBounds, thMin, loopC, loopI>>
vars == <<panelVars, genVars, libVars, thVars>>

(***************************************************************************)
(* Numbers of the script engine                                            *)
(***************************************************************************)
MantLo == 10^7
MantHi == 10^8
ExpSpecial == 10^6

NaN == <<0, ExpSpecial>>
PosInf == <<1, ExpSpecial>>
NegInf == <<0 - 1, ExpSpecial>>
Zero == <<0, 0>>

IsNum(x) == x[2] # ExpSpecial
IntAbs(n) == IF n < 0 THEN 0 - n ELSE n
IntSgn(n) == IF n < 0 THEN 0 - 1 ELSE IF n > 0 THEN 1 ELSE 0

\* Decimal digits of a positive integer below 2^31.
RECURSIVE Digits(_)
Digits(a) == IF a < 10 THEN 1 ELSE 1 + Digits(a \div 10)

\* The number sgn * r * 10^e, r of eight digits: past the range of a double
\* (about 10^308) it is an infinity, below it (about 10^-308) zero.
NormRange(sgn, r, e) ==
    IF e > 301 THEN (IF sgn > 0 THEN PosInf ELSE NegInf)
    ELSE IF e < 0 - 315 THEN Zero
    ELSE <<sgn * r, e>>

\* The same for a mantissa r of eight or nine digits.
NormPack(sgn, r, e) ==
    NormRange(sgn, IF r >= MantHi THEN r \div 10 ELSE r,
              IF r >= MantHi THEN e + 1 ELSE e)

\* The positive integer a times 10^e, sh the number of digits a has beyond
\* eight: rounded to eight digits, half away from zero.
NormShift(sgn, a, sh, e) ==
    NormPack(sgn,
             IF sh > 0 THEN (a + (10^sh) \div 2) \div (10^sh) ELSE a * 10^(0 - sh),
             e + sh)

\* The number m * 10^e rounded to eight significant digits.
Norm(m, e) ==
    IF m = 0 THEN Zero
    ELSE NormShift(IntSgn(m), IntAbs(m), Digits(IntAbs(m)) - 8, e)

\* A decimal literal of the source: F(95047, -5) is 0.95047.
F(m, e) == Norm(m, e)
N(n) == Norm(n, 0)

Neg(x) == IF x = NaN THEN NaN ELSE <<0 - x[1], x[2]>>
Abs(x) == IF x = NaN THEN NaN ELSE <<IntAbs(x[1]), x[2]>>

\* x < y for finite x and y with the signs sx and sy.
LtSigned(x, y, sx, sy) ==
    IF sx # sy THEN sx < sy
    ELSE IF sx = 0 THEN FALSE
    ELSE IF x[2] # y[2] THEN (IF sx > 0 THEN x[2] < y[2] ELSE x[2] > y[2])
    ELSE x[1] < y[1]

\* x < y, false when either is NaN.
Lt(x, y) ==
    IF x = NaN \/ y = NaN THEN FALSE
    ELSE IF ~IsNum(x) \/ ~IsNum(y) THEN
         IF x = y THEN FALSE
         ELSE IF x = NegInf \/ y = PosInf THEN TRUE ELSE FALSE
    ELSE LtSigned(x, y, IntSgn(x[1]), IntSgn(y[1]))
Gt(x, y) == Lt(y, x)
Eq(x, y) == x # NaN /\ y # NaN /\ x = y
Le(x, y) == Lt(x, y) \/ Eq(x, y)
Ge(x, y) == Le(y, x)

\* hi + lo for finite nonzero hi and lo, the exponent of hi the larger by d:
\* lo is brought to the exponent of hi less one, rounded.
AddAligned(hi, lo, d) ==
    IF d > 9 THEN hi
    ELSE Norm(hi[1] * 10
              + IntSgn(lo[1]) * ((IntAbs(lo[1]) * 10 + (10^d) \div 2) \div (10^d)),
              hi[2] - 1)

Add(x, y) ==
    IF x = NaN \/ y = NaN THEN NaN
    ELSE IF ~IsNum(x) THEN (IF ~IsNum(y) /\ x # y THEN NaN ELSE x)
    ELSE IF ~IsNum(y) THEN y
    ELSE IF x[1] = 0 THEN y
    ELSE IF y[1] = 0 THEN x
    ELSE IF x[2] >= y[2] THEN AddAligned(x, y, x[2] - y[2])
    ELSE AddAligned(y, x, y[2] - x[2])
Sub(x, y) == Add(x, Neg(y))

\* The product of two positive eight-digit mantissas a1 * 10^4 + a0 and
\* b1 * 10^4 + b0, over 10^7 and rounded: nine digits.
MulDigits(a1, a0, b1, b0) ==
    a1 * b1 * 10 + (a1 * b0 + a0 * b1 + (a0 * b0) \div 10^4 + 500) \div 1000

\* The product of two positive mantissas.
MulMant(a, b) == MulDigits(a \div 10^4, a % 10^4, b \div 10^4, b % 10^4)

Mul(x, y) ==
    IF x = NaN \/ y = NaN THEN NaN
    ELSE IF ~IsNum(x) \/ ~IsNum(y) THEN
         IF x[1] = 0 \/ y[1] = 0 THEN NaN
         ELSE IF IntSgn(x[1]) = IntSgn(y[1]) THEN PosInf ELSE NegInf
    ELSE IF x[1] = 0 \/ y[1] = 0 THEN Zero
    ELSE Norm(IntSgn(x[1]) * IntSgn(y[1]) * MulMant(IntAbs(x[1]), IntAbs(y[1])),
              x[2] + y[2] + 7)

\* A value computed once and named: The({body : a \in {e}}) is body with a
\* standing for the value of e, as after the statement  local a = e;  of the
\* script.
The(S) == CHOOSE r \in S : TRUE

\* One digit of a long division by b: <<quotient so far, remainder>>.
DivStep(qr, b) == <<qr[1] * 10 + (qr[2] * 10) \div b, (qr[2] * 10) % b>>

\* The last digit of a long division, rounded.
DivRound(qr, b) == IF 2 * qr[2] >= b THEN qr[1] + 1 ELSE qr[1]

\* The quotient a / b of two mantissas to nine digits.
DivDigits(a, b) ==
    DivRound(DivStep(DivStep(DivStep(DivStep(DivStep(DivStep(DivStep(DivStep(
        <<a \div b, a % b>>, b), b), b), b), b), b), b), b), b)

Div(x, y) ==
    IF x = NaN \/ y = NaN THEN NaN
    ELSE IF ~IsNum(x) THEN
         IF ~IsNum(y) THEN NaN
         ELSE IF IntSgn(x[1]) * IntSgn(y[1]) >= 0 THEN x ELSE Neg(x)
    ELSE IF ~IsNum(y) THEN Zero
    ELSE IF y[1] = 0 THEN
         IF x[1] = 0 THEN NaN ELSE IF x[1] > 0 THEN PosInf ELSE NegInf
    ELSE IF x[1] = 0 THEN Zero
    ELSE Norm(IntSgn(x[1]) * IntSgn(y[1]) * DivDigits(IntAbs(x[1]), IntAbs(y[1])),
              x[2] - y[2] - 8)

(***************************************************************************)
(* The Math library of the script engine                                   *)
(***************************************************************************)
LN2 == F(693147181, -9)
LN10 == F(230258509, -8)
HALF == F(5, -1)
ONE == N(1)

\* The integer part of x toward minus infinity, for |x| < 2 * 10^9.
FloorInt(x) ==
    IF x[1] = 0 THEN 0
    ELSE IF x[2] >= 0 THEN x[1] * 10^x[2]
    ELSE IF x[2] < 0 - 9 THEN (IF x[1] < 0 THEN 0 - 1 ELSE 0)
    ELSE x[1] \div 10^(0 - x[2])
\* The nearest integer to x, halves upward.
RoundInt(x) == FloorInt(Add(x, HALF))

\* 1/k + t2 * h: one step of Horner's rule for the atanh series.
OddStep(h, t2, k) == Add(Div(ONE, N(k)), Mul(t2, h))

\* Horner's rule from the term of order k down to the first, h the value of
\* the terms above.
RECURSIVE OddHorner(_, _, _)
OddHorner(h, t2, k) ==
    IF k < 1 THEN h
    ELSE The({ OddHorner(h2, t2, k - 2) : h2 \in {OddStep(h, t2, k)} })

\* 1 + z2/3 + z2^2/5 + ... + z2^6/13.
LnSeries(z2) == OddHorner(Div(ONE, N(13)), z2, 11)

\* ln y for y in [0.75, 1.5): 2 * atanh(z) with z = (y-1)/(y+1).
LnNear1(z) == The({ Mul(N(2), Mul(z, s)) : s \in {LnSeries(Mul(z, z))} })

\* ln(yr * 2^k) for yr in [0.75, 1.5).
LnMant(yr, k) ==
    The({ Add(l, Mul(N(k), LN2))
          : l \in {LnNear1(Div(Sub(yr, ONE), Add(yr, ONE)))} })

\* The k for which m * 10^-7 / 2^k is in [0.75, 1.5), m an 8-digit mantissa.
LnShift(m) ==
    IF m < 15000000 THEN 0 ELSE IF m < 30000000 THEN 1
    ELSE IF m < 60000000 THEN 2 ELSE 3

\* Natural logarithm of a finite x > 0: x is y * 10^n with y in [1, 10).
Ln(x) ==
    The({ Add(l, Mul(N(x[2] + 7), LN10))
          : l \in {LnMant(Div(<<x[1], 0 - 7>>, N(2^LnShift(x[1]))),
                          LnShift(x[1]))} })

\* 1 + (r/k) * h: one step of Horner's rule for the exponential series.
ExpStep(h, r, k) == Add(ONE, Mul(Div(r, N(k)), h))

\* e^r for |r| <= ln(10)/2: 1 + r + r^2/2! + ... + r^14/14!.
RECURSIVE ExpHorner(_, _, _)
ExpHorner(h, r, k) ==
    IF k < 1 THEN h
    ELSE The({ ExpHorner(h2, r, k - 1) : h2 \in {ExpStep(h, r, k)} })
ExpSeries(r) == ExpHorner(ONE, r, 14)

\* h * 10^n.
Scale10(h, n) == IF h[1] = 0 \/ ~IsNum(h) THEN h ELSE Norm(h[1], h[2] + n)

\* e^v with v = n * ln 10 + r.
ExpSplit(v, n) ==
    The({ Scale10(h, n) : h \in {ExpSeries(Sub(v, Mul(N(n), LN10)))} })

\* e^v for a finite v.
Exp(v) ==
    IF Gt(v, N(1000)) THEN PosInf
    ELSE IF Lt(v, N(0 - 1000)) THEN Zero
    ELSE ExpSplit(v, RoundInt(Div(v, LN10)))

\* Math.pow(x, y) for the exponents the library uses: 3, 1/3, 2.4, 1/2.4.
\* Math.pow(x, 3.0).
Cube(x) == Mul(x, Mul(x, x))

MathPow(x, y) ==
    IF x = NaN \/ y = NaN THEN NaN
    ELSE IF y = N(3) THEN Mul(x, Mul(x, x))
    ELSE IF x = PosInf THEN PosInf
    ELSE IF Lt(x, Zero) THEN NaN
    ELSE IF x = Zero THEN Zero
    ELSE The({ Exp(Mul(y, l)) : l \in {Ln(x)} })

\* One step of Newton's iteration for the square root of x from the guess g.
SqrtStep(x, g) == Mul(HALF, Add(g, Div(x, g)))

MathSqrt(x) ==
    IF x = NaN \/ Lt(x, Zero) THEN NaN
    ELSE IF x = Zero \/ x = PosInf THEN x
    ELSE The({ The({ SqrtStep(x, g) : g \in {Exp(Mul(HALF, l))} })
               : l \in {Ln(x)} })

MathAbs(x) == Abs(x)
MathIsnan(x) == x = NaN
MathIsinf(x) == x = PosInf \/ x = NegInf
MathMax(x, y) == IF Lt(x, y) THEN y ELSE x
MathMin(x, y) == IF Lt(y, x) THEN y ELSE x
\* Math.range(v, lo, hi): v limited to [lo, hi]; a NaN passes through.
MathRange(v, lo, hi) == IF Lt(v, lo) THEN lo ELSE IF Lt(hi, v) THEN hi ELSE v

\* const PI of the HSLuv namespace; the Math library's own pi is the same number.
PI == F(314159265, -8)
HALFPI == F(157079633, -8)

\* 1 - t2/(j*(j+1)) * h: one step of Horner's rule for sine and cosine.
TrigStep(h, t2, j) == Sub(ONE, Mul(Div(t2, N(j * (j + 1))), h))

\* sin(t)/t and cos(t) for |t| <= pi/4, as series in t2 = t^2.
RECURSIVE TrigHorner(_, _, _)
TrigHorner(h, t2, j) ==
    IF j < 1 THEN h
    ELSE The({ TrigHorner(h2, t2, j - 2) : h2 \in {TrigStep(h, t2, j)} })
\* sin(t)/t (odd, the series from j = 12) and cos(t) (from j = 11) at t2 = t^2.
TrigSeries(t2, odd) == TrigHorner(ONE, t2, IF odd THEN 12 ELSE 11)

\* sin t (odd) or cos t for |t| <= pi/4.
TrigSmall(t, odd) ==
    The({ IF odd THEN Mul(t, s) ELSE s : s \in {TrigSeries(Mul(t, t), odd)} })

\* v, negated when neg.
SignIf(neg, v) == IF neg THEN Neg(v) ELSE v

\* sin of q * pi/2 + t, for |t| <= pi/4; cos is sin a quadrant on.
SinQuadrant(q, t) == SignIf(q % 4 \in {2, 3}, TrigSmall(t, q % 2 = 0))
CosQuadrant(q, t) == SinQuadrant(q + 1, t)

\* sin and cos of x, the nearest multiple q of pi/2 given.
SinReduced(x, q) == The({ SinQuadrant(q, t) : t \in {Sub(x, Mul(N(q), HALFPI))} })
CosReduced(x, q) == The({ CosQuadrant(q, t) : t \in {Sub(x, Mul(N(q), HALFPI))} })

MathSin(x) == IF ~IsNum(x) THEN NaN ELSE SinReduced(x, RoundInt(Div(x, HALFPI)))
MathCos(x) == IF ~IsNum(x) THEN NaN ELSE CosReduced(x, RoundInt(Div(x, HALFPI)))

\* 1/k - t2 * h: one step of Horner's rule for the arctangent series.
AtanStep(h, t2, k) == Sub(Div(ONE, N(k)), Mul(t2, h))

\* atan(w)/w for |w| <= 1/8, as a series in w2 = w^2.
RECURSIVE AtanHorner(_, _, _)
AtanHorner(h, w2, k) ==
    IF k < 1 THEN h
    ELSE The({ AtanHorner(h2, w2, k - 2) : h2 \in {AtanStep(h, w2, k)} })
AtanSeries(w2) == AtanHorner(Div(ONE, N(9)), w2, 7)
AtanSmall(w) == The({ Mul(w, s) : s \in {AtanSeries(Mul(w, w))} })

\* atan(j/4) for j in 0..4.
AtanQuarter(j) ==
    IF j = 0 THEN Zero ELSE IF j = 1 THEN F(244978663, -9)
    ELSE IF j = 2 THEN F(463647609, -9)
    ELSE IF j = 3 THEN F(643501109, -9) ELSE F(785398163, -9)

\* atan z for 0 <= z <= 1 and j the nearest integer to 4z:
\* atan(j/4) + atan((z - j/4)/(1 + z*j/4)).
AtanNear(z, j) ==
    The({ Add(AtanQuarter(j), s)
          : s \in {AtanSmall(Div(Sub(z, Div(N(j), N(4))),
                                 Add(ONE, Mul(z, Div(N(j), N(4))))))} })
AtanUnit(z) == AtanNear(z, RoundInt(Mul(z, N(4))))

\* atan a for a >= 0.
AtanFold(a, big) ==
    The({ IF big THEN Sub(HALFPI, s) ELSE s
          : s \in {AtanUnit(IF big THEN Div(ONE, a) ELSE a)} })
AtanPos(a) == AtanFold(a, Gt(a, ONE))

MathAtan(x) ==
    IF x = NaN THEN NaN
    ELSE IF x = PosInf THEN HALFPI
    ELSE IF x = NegInf THEN Neg(HALFPI)
    ELSE The({ SignIf(x[1] < 0, s) : s \in {AtanPos(Abs(x))} })

MathToRadians(d) == Mul(Div(d, N(180)), PI)
MathToDegrees(r) == Mul(Div(r, PI), N(180))

\* a - q * b for a, b > 0.
FmodPos(a, b, q) == Sub(a, Mul(N(q), b))
\* Math.fmod(a, b): a minus b times the quotient truncated toward zero.
MathFmod(a, b) ==
    IF ~IsNum(a) \/ b = NaN \/ b = Zero THEN NaN
    ELSE IF ~IsNum(b) THEN a
    ELSE IF a[1] < 0 THEN Neg(FmodPos(Abs(a), Abs(b), FloorInt(Div(Abs(a), Abs(b)))))
    ELSE FmodPos(Abs(a), Abs(b), FloorInt(Div(Abs(a), Abs(b))))

(***************************************************************************)
(* HSLuv.js: constants and helpers                                         *)
(***************************************************************************)
REF_X == F(95047, -5)
REF_Y == F(10, -1)
REF_Z == F(108883, -5)

M00 == F(32404542, -7)
M01 == F(0 - 15371385, -7)
M02 == F(0 - 4985314, -7)
M10 == F(0 - 9692660, -7)
M11 == F(18760108, -7)
M12 == F(415560, -7)
M20 == F(556434, -7)
M21 == F(0 - 2040259, -7)
M22 == F(10572252, -7)

EPS == F(1, -10)
K == F(903296296, -6)
E == F(88564516, -10)

sanitize(v) ==
    IF MathIsnan(v) THEN Zero
    ELSE IF MathIsinf(v) THEN Zero
    ELSE v

\* clamp01 that lets every value through.
clamp01_unclamped(v) == v

clamp01(v) ==
    IF Lt(v, Zero) THEN Zero
    ELSE IF Gt(v, ONE) THEN ONE
    ELSE v

\* The branches of myAtan2 on the sanitized y, x; at is Math.atan(y / x),
\* which only the branches with x # 0 use.
myAtan2Of(y, x, at) ==
    IF Gt(x, Zero) THEN at
    ELSE IF Lt(x, Zero) /\ Ge(y, Zero) THEN Add(at, PI)
    ELSE IF Lt(x, Zero) /\ Lt(y, Zero) THEN Sub(at, PI)
    ELSE IF Eq(x, Zero) /\ Gt(y, Zero) THEN Div(PI, N(2))
    ELSE IF Eq(x, Zero) /\ Lt(y, Zero) THEN Div(Neg(PI), N(2))
    ELSE Zero

myAtan2(y_in, x_in) ==
    The({ myAtan2Of(sanitize(y_in), sanitize(x_in), at)
          : at \in {MathAtan(Div(sanitize(y_in), sanitize(x_in)))} })

srgbCompanding(c) ==
    IF Le(sanitize(c), F(31308, -7)) THEN Mul(F(1292, -2), sanitize(c))
    ELSE The({ Sub(Mul(F(1055, -3), p), F(55, -3))
               : p \in {MathPow(sanitize(c), Div(ONE, F(24, -1)))} })

\* The branches of srgbInverseCompanding on the sanitized, clamped channel.
srgbInverseOf(c_sanitized) ==
    IF Le(c_sanitized, F(4045, -5)) THEN Div(c_sanitized, F(1292, -2))
    ELSE The({ MathPow(q, F(24, -1))
               : q \in {Div(Add(c_sanitized, F(55, -3)), F(1055, -3))} })

srgbInverseCompanding(c) == srgbInverseOf(MathRange(sanitize(c), Zero, ONE))

(***************************************************************************)
(* HSLuv.js: the gamut boundary                                            *)
(***************************************************************************)
\* A boundary line is <<m, b>>; the null of the source is the empty tuple.
null == <<>>

\* sub2 of pushLine_safe from sub1 and the sanitized L.
pushLine_sub2(sub1, L_s) == sanitize(IF Gt(sub1, E) THEN sub1 ELSE Div(L_s, K))

\* pushLine_safe returning the quotients whatever they are.
pushLine_line_unchecked(top1, top2, bottom) ==
    <<sanitize(Div(top1, bottom)), sanitize(Div(top2, bottom))>>

\* pushLine_safe from its second return on: top1, top2 and bottom are
\* computed, bottom sanitized.
pushLine_line(top1, top2, bottom) ==
    IF Lt(MathAbs(bottom), EPS) THEN null
    ELSE The({ IF MathIsnan(m) \/ MathIsinf(m) \/ MathIsnan(b) \/ MathIsinf(b)
               THEN null
               ELSE <<sanitize(m), sanitize(b)>>
               : m \in {Div(top1, bottom)}, b \in {Div(top2, bottom)} })

\* pushLine_safe on sanitized arguments and the sanitized sub2.
pushLine_tops(mc0_s, mc1_s, mc2_s, L_s, t_s, sub2) ==
    IF Lt(MathAbs(sub2), EPS) THEN null
    ELSE The({ pushLine_line(top1, top2, bottom)
         : top1 \in {Mul(Sub(Mul(N(284517), mc0_s), Mul(N(94839), mc2_s)), sub2)},
           top2 \in {Sub(Mul(Mul(Add(Add(Mul(N(838422), mc2_s),
                                         Mul(N(769860), mc1_s)),
                                     Mul(N(731718), mc0_s)), sub2), L_s),
                         Mul(Mul(N(769860), t_s), L_s))},
           bottom \in {sanitize(Add(Mul(Sub(Mul(N(632260), mc2_s),
                                            Mul(N(126452), mc1_s)), sub2),
                                    Mul(N(126452), t_s)))} })

pushLine_safe(mc0, mc1, mc2, L, t) ==
    The({ pushLine_tops(sanitize(mc0), sanitize(mc1), sanitize(mc2), sanitize(L),
                        sanitize(t), sub2)
          : sub2 \in {pushLine_sub2(
                        Cube(Div(Add(sanitize(L), N(16)), N(116))),
                        sanitize(L))} })

\* The rows [m0, m1, m2] of getBounds.
BoundsMatrix ==
    << <<F(324096994, -8), F(0 - 153738318, -8), F(0 - 498610760, -9)>>,
       <<F(0 - 969243636, -9), F(187596750, -8), F(415550574, -10)>>,
       <<F(556300797, -10), F(0 - 203976959, -9), F(105697151, -8)>> >>

\* bounds after the two pushes of one pass: null lines are left out.
pushLines(line0, line1) ==
    (IF line0 # null THEN <<line0>> ELSE <<>>)
    \o (IF line1 # null THEN <<line1>> ELSE <<>>)

\* One pass of the loop of getBounds over the row m = [m0, m1, m2]: the lines
\* it pushes, for t = 0 and then t = 1.
getBoundsRow(L, m) ==
    The({ pushLines(line[0], line[1])
          : line \in {[t \in 0..1 |-> pushLine_safe(m[1], m[2], m[3], L, N(t))]
                      @@ <<>>} })

\* The loop of getBounds from row c (1..3) on, bounds the lines pushed so far.
RECURSIVE getBoundsLoop(_, _, _)
getBoundsLoop(L, c, bounds) ==
    IF c > 3 THEN bounds
    ELSE The({ getBoundsLoop(L, c + 1, next)
               : next \in {bounds \o getBoundsRow(L, BoundsMatrix[c])} })

getBounds(L) == getBoundsLoop(L, 1, <<>>)

\* The sentinel maxChromaForLH starts from.
Sentinel == F(1, 10)

\* The test that ends the body of the loop of maxChromaForLH.
minLengthOf(minLength, length) ==
    IF Ge(length, Zero) /\ Lt(length, minLength) THEN length ELSE minLength

\* The body of the loop of maxChromaForLH for one line.
maxChromaStep(minLength, line, hRad) ==
    The({ minLengthOf(minLength, Div(line[2], Sub(sinH, Mul(line[1], cosH))))
          : sinH \in {MathSin(hRad)}, cosH \in {MathCos(hRad)} })

\* The loop of maxChromaForLH from index i (1..) on.
RECURSIVE maxChromaLoop(_, _, _, _)
maxChromaLoop(bounds, i, minLength, hRad) ==
    IF i > Len(bounds) THEN minLength
    ELSE The({ maxChromaLoop(bounds, i + 1, next, hRad)
               : next \in {maxChromaStep(minLength, bounds[i], hRad)} })

maxChromaForLH(L, H) ==
    The({ maxChromaLoop(bounds, 1, Sentinel, hRad)
          : hRad \in {MathToRadians(H)}, bounds \in {getBounds(L)} })

(***************************************************************************)
(* HSLuv.js: the conversion chain.  A triple [a, b, c] of the source is    *)
(* the tuple <<a, b, c>>: index 0 of the source is index 1 here.           *)
(***************************************************************************)
\* The guard with its upper end at 100.
LMax_oneHundred == N(100)

\* The lightness above which hsluvToLch and lchToHsluv return at once.
LMax == F(9999999, -5)

\* hsluvToLch once maxC is known.
hsluvToLchOf(H, S, L, maxC) ==
    IF Le(maxC, EPS) THEN <<L, Zero, H>>
    ELSE <<L, sanitize(Mul(maxC, Div(MathRange(S, Zero, N(100)), N(100)))), H>>

hsluvToLch(HSL) ==
    IF Lt(sanitize(HSL[3]), EPS) \/ Gt(sanitize(HSL[3]), LMax)
    THEN <<sanitize(HSL[3]), Zero, sanitize(HSL[1])>>
    ELSE The({ hsluvToLchOf(sanitize(HSL[1]), sanitize(HSL[2]), sanitize(HSL[3]),
                            maxC)
               : maxC \in {maxChromaForLH(sanitize(HSL[3]), sanitize(HSL[1]))} })

\* lchToLuv on sanitized L and C and the hue in radians.
lchToLuvOf(L, C, Hrad) ==
    The({ <<L, sanitize(Mul(C, cosH)), sanitize(Mul(C, sinH))>>
          : cosH \in {MathCos(Hrad)}, sinH \in {MathSin(Hrad)} })

lchToLuv(LCH) ==
    lchToLuvOf(sanitize(LCH[1]), sanitize(LCH[2]), MathToRadians(sanitize(LCH[3])))

\* Uref and Vref, computed alike in luvToXyz and xyzToLuv.
RefDenom == Add(Add(REF_X, Mul(N(15), REF_Y)), Mul(N(3), REF_Z))
Uref == Div(Mul(N(4), REF_X), RefDenom)
Vref == Div(Mul(N(9), REF_Y), RefDenom)

\* luvToXyz with Y, U, V and the guarded denominator computed.
luvToXyzOf(Y, U, V, denom) ==
    <<Div(Mul(Mul(Y, N(9)), U), denom),
      Y,
      Div(Mul(Y, Sub(Sub(N(12), Mul(N(3), U)), Mul(N(20), V))), denom)>>

\* The denominator 4V of luvToXyz, EPS when it is too small.
luvDenom(d4) == IF Lt(MathAbs(d4), EPS) THEN EPS ELSE d4

\* luvToXyz with Y, U and V computed.
luvToXyzUV(Y, U, V) == luvToXyzOf(Y, U, V, luvDenom(Mul(N(4), V)))

\* luvToXyz on sanitized L, u, v.
luvToXyzSan(L, u, v) ==
    The({ luvToXyzUV(Y, U, V)
          : Y \in {IF Le(L, N(8)) THEN Div(Mul(L, REF_Y), F(9033, -1))
                   ELSE Mul(Cube(Div(Add(L, N(16)), N(116))), REF_Y)},
            U \in {IF Lt(L, EPS) THEN Uref ELSE Add(Div(u, Mul(N(13), L)), Uref)},
            V \in {IF Lt(L, EPS) THEN Vref ELSE Add(Div(v, Mul(N(13), L)), Vref)} })

luvToXyz(Luv) == luvToXyzSan(sanitize(Luv[1]), sanitize(Luv[2]), sanitize(Luv[3]))

\* r, g, b of xyzToRgb from the linear channels: companded, sanitized, clamped.
compandChannels(lin) ==
    [ch \in 1..3 |-> clamp01(sanitize(srgbCompanding(lin[ch])))] @@ <<>>

\* xyzToRgb on sanitized x, y, z.
xyzToRgbSan(x, y, z) ==
    The({ compandChannels(<<r_lin, g_lin, b_lin>>)
          : r_lin \in {Add(Add(Mul(x, M00), Mul(y, M01)), Mul(z, M02))},
            g_lin \in {Add(Add(Mul(x, M10), Mul(y, M11)), Mul(z, M12))},
            b_lin \in {Add(Add(Mul(x, M20), Mul(y, M21)), Mul(z, M22))} })

xyzToRgb(XYZ) == xyzToRgbSan(sanitize(XYZ[1]), sanitize(XYZ[2]), sanitize(XYZ[3]))

\* rgbToXyz on the linear channels.
rgbToXyzLin(R_lin, G_lin, B_lin) ==
    <<sanitize(Add(Add(Mul(R_lin, F(4124564, -7)), Mul(G_lin, F(3575761, -7))),
                   Mul(B_lin, F(1804375, -7)))),
      sanitize(Add(Add(Mul(R_lin, F(2126729, -7)), Mul(G_lin, F(7151522, -7))),
                   Mul(B_lin, F(721750, -7)))),
      sanitize(Add(Add(Mul(R_lin, F(193339, -7)), Mul(G_lin, F(1191920, -7))),
                   Mul(B_lin, F(9503041, -7))))>>

rgbToXyz(RGB) ==
    The({ rgbToXyzLin(lin[1], lin[2], lin[3])
          : lin \in {[ch \in 1..3 |-> srgbInverseCompanding(sanitize(RGB[ch]))]
                     @@ <<>>} })

\* L of xyzToLuv from Yr = y / REF_Y.
xyzToL(Yr) ==
    IF Gt(Yr, E)
    THEN The({ Sub(Mul(N(116), p), N(16)) : p \in {MathPow(Yr, Div(ONE, N(3)))} })
    ELSE Mul(K, Yr)

\* xyzToLuv with L and the denominator computed.
xyzToLuvOf(x, y, denom, L) ==
    <<sanitize(L),
      sanitize(Mul(Mul(N(13), L), Sub(Div(Mul(N(4), x), denom), Uref))),
      sanitize(Mul(Mul(N(13), L), Sub(Div(Mul(N(9), y), denom), Vref)))>>

\* xyzToLuv on sanitized x, y, z and the denominator.
xyzToLuvSan(x, y, z, denom) ==
    IF Lt(MathAbs(denom), EPS) THEN <<Zero, Zero, Zero>>
    ELSE The({ xyzToLuvOf(x, y, denom, L) : L \in {xyzToL(Div(y, REF_Y))} })

xyzToLuv(XYZ) ==
    xyzToLuvSan(sanitize(XYZ[1]), sanitize(XYZ[2]), sanitize(XYZ[3]),
                Add(Add(sanitize(XYZ[1]), Mul(N(15), sanitize(XYZ[2]))),
                    Mul(N(3), sanitize(XYZ[3]))))

\* The hue of luvToLch in degrees, brought into [0, 360).
hueDegrees(Hdeg) == IF Lt(Hdeg, Zero) THEN Add(Hdeg, N(360)) ELSE Hdeg

\* luvToLch on sanitized L, u, v.
luvToLchSan(L, u, v) ==
    The({ <<L, sanitize(C), sanitize(hueDegrees(MathToDegrees(Hrad)))>>
          : C \in {MathSqrt(Add(Mul(u, u), Mul(v, v)))}, Hrad \in {myAtan2(v, u)} })

luvToLch(Luv) == luvToLchSan(sanitize(Luv[1]), sanitize(Luv[2]), sanitize(Luv[3]))

\* lchToHsluv once maxC is known.
lchToHsluvOf(L, C, H, maxC) ==
    IF Le(maxC, EPS) THEN <<H, Zero, L>>
    ELSE <<H, MathRange(sanitize(Mul(Div(C, maxC), N(100))), Zero, N(100)), L>>

lchToHsluv(LCH) ==
    IF Lt(LCH[1], EPS) \/ Gt(LCH[1], LMax) THEN <<LCH[3], Zero, LCH[1]>>
    ELSE The({ lchToHsluvOf(LCH[1], LCH[2], LCH[3], maxC)
               : maxC \in {maxChromaForLH(LCH[1], LCH[3])} })

hsluvToRgb(HSL) ==
    The({ The({ The({ xyzToRgb(xyz)
                      : xyz \in {luvToXyz(luv)} })
                : luv \in {lchToLuv(lch)} })
          : lch \in {hsluvToLch(HSL)} })

rgbToHsluv(RGB) ==
    The({ The({ The({ lchToHsluv(lch)
                      : lch \in {luvToLch(luv)} })
                : luv \in {xyzToLuv(xyz)} })
          : xyz \in {rgbToXyz(RGB)} })

(***************************************************************************)
(* HSLuv.js: the entry points of HISE.  A colour (the uint32 ARGB of HISE) *)
(* is the tuple <<r, g, b, a>> of its four bytes.                          *)
(***************************************************************************)
\* Colours.fromVec4: each channel times 255, rounded to a byte.
ColoursFromVec4(vec4) ==
    <<RoundInt(Mul(vec4[1], N(255))), RoundInt(Mul(vec4[2], N(255))),
      RoundInt(Mul(vec4[3], N(255))), RoundInt(Mul(vec4[4], N(255)))>>
\* Colours.toVec4: each byte over 255.
ColoursToVec4(colour) ==
    <<Div(N(colour[1]), N(255)), Div(N(colour[2]), N(255)),
      Div(N(colour[3]), N(255)), Div(N(colour[4]), N(255))>>

toVec4(HSL) == The({ <<rgb[1], rgb[2], rgb[3], ONE>> : rgb \in {hsluvToRgb(HSL)} })

\* The body of the loop of toColour and toColourWithAlpha for one channel.
ClampChannel(v) ==
    IF MathIsnan(v) \/ MathIsinf(v) THEN Zero ELSE MathRange(v, Zero, ONE)
ClampVec4(vec4) ==
    <<ClampChannel(vec4[1]), ClampChannel(vec4[2]), ClampChannel(vec4[3]),
      ClampChannel(vec4[4])>>

toColour(HSL) ==
    The({ ColoursFromVec4(ClampVec4(vec4)) : vec4 \in {toVec4(HSL)} })

toColourWithAlpha(HSLA) ==
    The({ ColoursFromVec4(ClampVec4(<<rgb[1], rgb[2], rgb[3], HSLA[4]>>))
          : rgb \in {toVec4(<<HSLA[1], HSLA[2], HSLA[3]>>)} })

fromVec4(vec4) ==
    The({ rgbToHsluv(RGB)
          : RGB \in {<<sanitize(vec4[1]), sanitize(vec4[2]), sanitize(vec4[3])>>} })

\* The body of the sanitising loop that ends fromColour, for one component.
SanitizeComponent(v) == IF MathIsnan(v) \/ MathIsinf(v) THEN Zero ELSE v
\* The sanitising loop and the three clamps that end fromColour.
ClampHsluv(hsluv) ==
    <<MathRange(SanitizeComponent(hsluv[1]), Zero, N(360)),
      MathRange(SanitizeComponent(hsluv[2]), Zero, N(100)),
      MathRange(SanitizeComponent(hsluv[3]), Zero, N(100))>>

fromColour(colour) ==
    The({ The({ ClampHsluv(hsluv) : hsluv \in {fromVec4(vec4)} })
          : vec4 \in {ColoursToVec4(colour)} })

fromColourWithAlpha(colour) ==
    The({ The({ ClampHsluv(hsluv) \o <<vec4[4]>> : hsluv \in {fromVec4(vec4)} })
          : vec4 \in {ColoursToVec4(colour)} })

(***************************************************************************)
(* HSLuv.js: the tools                                                     *)
(***************************************************************************)
toLinear(c) ==
    IF Le(c, F(4045, -5)) THEN Div(c, F(1292, -2))
    ELSE The({ MathPow(q, F(24, -1)) : q \in {Div(Add(c, F(55, -3)), F(1055, -3))} })

getLuminance(hsluv) ==
    The({ Add(Add(Mul(F(2126, -4), lin[1]), Mul(F(7152, -4), lin[2])),
              Mul(F(722, -4), lin[3]))
          : lin \in {The({ [ch \in 1..3 |-> toLinear(vec4[ch])] @@ <<>>
                           : vec4 \in {toVec4(hsluv)} })} })

getContrast(hsluv1, hsluv2) ==
    The({ Div(Add(MathMax(Lv1, Lv2), F(5, -2)), Add(MathMin(Lv1, Lv2), F(5, -2)))
          : Lv1 \in {getLuminance(hsluv1)}, Lv2 \in {getLuminance(hsluv2)} })

BLACK == <<Zero, Zero, Zero>>
WHITE == <<Zero, Zero, N(100)>>

chooseHighContrastBW(hsluv) ==
    The({ IF Gt(Lv, HALF) THEN BLACK ELSE WHITE : Lv \in {getLuminance(hsluv)} })

invertHue(HSL) ==
    The({ <<IF Gt(newH, N(360)) THEN Sub(newH, N(360)) ELSE newH, HSL[2], HSL[3]>>
          : newH \in {Add(HSL[1], N(180))} })

invertLightness(HSL) == <<HSL[1], HSL[2], Sub(ONE, HSL[3])>>

(***************************************************************************)
(* HSLuvPaletteGen.js: the palette                                         *)
(***************************************************************************)
getTextCol(bgHsluv) ==
    The({ toColour(bwArray) : bwArray \in {chooseHighContrastBW(bgHsluv)} })

\* The hover rule with the branch taken from 80 on, not above 80.
hoverOf_atEighty(primary) ==
    IF Ge(primary[3], N(80)) THEN <<primary[1], primary[2], Sub(primary[3], N(10))>>
    ELSE <<primary[1], primary[2], Add(primary[3], N(10))>>

\* The hover rule without its first branch: always lighter.
hoverOf_alwaysLighter(primary) ==
    <<primary[1], primary[2], Add(primary[3], N(10))>>

\* -- Hover --
hoverOf(primary) ==
    IF Gt(primary[3], N(80)) THEN <<primary[1], primary[2], Sub(primary[3], N(10))>>
    ELSE <<primary[1], primary[2], Add(primary[3], N(10))>>

\* The clicked rule with the branch taken up to 20, not below 20.
clickedOf_atTwenty(primary) ==
    IF Le(primary[3], N(20)) THEN <<primary[1], primary[2], Add(primary[3], N(15))>>
    ELSE <<primary[1], primary[2], Sub(primary[3], N(15))>>

\* -- Clicked --
clickedOf(primary) ==
    IF Lt(primary[3], N(20)) THEN <<primary[1], primary[2], Add(primary[3], N(15))>>
    ELSE <<primary[1], primary[2], Sub(primary[3], N(15))>>

\* The disabled rule with the fix applied whatever the saturation.
disabledOf_anySaturation(primary) ==
    The({ IF Lt(MathAbs(Sub(d2, primary[3])), N(15))
          THEN <<primary[1], N(20), Add(d2, N(20))>>
          ELSE <<primary[1], N(20), d2>>
          : d2 \in {Add(Mul(primary[3], HALF), N(25))} })

\* -- Disabled --, with the low saturation fix
disabledOf(primary) ==
    The({ IF Lt(primary[2], N(35)) /\ Lt(MathAbs(Sub(d2, primary[3])), N(15))
          THEN <<primary[1], N(20), Add(d2, N(20))>>
          ELSE <<primary[1], N(20), d2>>
          : d2 \in {Add(Mul(primary[3], HALF), N(25))} })

\* -- Focus Background --
focusOf(primary) ==
    The({ <<hover[1], hover[2], hover[3]>> : hover \in {hoverOf(primary)} })

\* The outline rule with the dark outline from 60 on, not above 60.
focusOutlineOf_atSixty(primary) ==
    The({ <<MathFmod(Add(focus[1], N(180)), N(360)),
            N(100),
            IF Ge(primary[3], N(60)) THEN N(20) ELSE N(90)>>
          : focus \in {focusOf(primary)} })

\* -- Focus Outline --
focusOutlineOf(primary) ==
    The({ <<MathFmod(Add(focus[1], N(180)), N(360)),
            N(100),
            IF Gt(primary[3], N(60)) THEN N(20) ELSE N(90)>>
          : focus \in {focusOf(primary)} })

\* The PUHSL triples generateButtonPalette derives from the primary.
deriveStates(primary) ==
    [primary |-> primary,
     hover |-> hoverOf(primary),
     clicked |-> clickedOf(primary),
     disabled |-> disabledOf(primary),
     focus |-> focusOf(primary),
     focusOutline |-> focusOutlineOf(primary)]

\* The text of every state chosen against the primary, not the state's own
\* background.
textsOf_ofPrimary(st) ==
    [s \in {"primary", "hover", "clicked", "disabled", "focus"}
        |-> getTextCol(st["primary"])]

\* The text on each state's background: getTextCol of the state's own triple.
textsOf(st) ==
    [s \in {"primary", "hover", "clicked", "disabled", "focus"} |-> getTextCol(st[s])]

\* The colours HSLuv.toColour makes of the derived triples.
backgroundsOf(st) ==
    [s \in {"hover", "clicked", "disabled", "focus", "focusOutline"} |-> toColour(st[s])]

\* 3. Build Palette
buildPalette(base, st) ==
    The({ [normal |-> [background |-> base, text |-> tx["primary"]],
           hover |-> [background |-> bg["hover"], text |-> tx["hover"]],
           clicked |-> [background |-> bg["clicked"], text |-> tx["clicked"]],
           disabled |-> [background |-> bg["disabled"], text |-> tx["disabled"]],
           focus |-> [background |-> bg["focus"], text |-> tx["focus"],
                      outline |-> bg["focusOutline"]]]
          : tx \in {textsOf(st)}, bg \in {backgroundsOf(st)} })

generateButtonPalette(base) ==
    The({ buildPalette(base, deriveStates(primary)) : primary \in {fromColour(base)} })

(***************************************************************************)
(* HSLuvPaletteGen.js: the test panel                                      *)
(***************************************************************************)
INIT_HUE == Zero
INIT_SAT == N(75)
INIT_LIG == N(50)

\* The values the knobs hand to their callbacks.  The hue knob wraps
\* (isInfinite), so it never reaches 1; the other two stop at 0 and 1.
HueKnobValues == {Zero, HALF}
SatKnobValues == {Zero, HALF}
LightKnobValues == {Zero, HALF}

\* Every value currentHSLuv takes: the initial one and what the knobs set.
KnobGrid ==
    ({INIT_HUE} \cup {Mul(v, N(360)) : v \in HueKnobValues})
    \X ({INIT_SAT} \cup {Mul(v, N(100)) : v \in SatKnobValues})
    \X ({INIT_LIG} \cup {Mul(v, N(100)) : v \in LightKnobValues})

\* toColour and generateButtonPalette are functions of their argument alone:
\* their values over the knob grid, computed once (@@ makes the table of a
\* function explicit).
toColourOfGrid == [g \in KnobGrid |-> toColour(g)] @@ <<>>
paletteOfColour ==
    [k \in {toColourOfGrid[g] : g \in KnobGrid} |-> generateButtonPalette(k)] @@ <<>>

\* No palette, no colours, no state yet.
undefined == [undefined |-> TRUE]

panelIdle ==
    /\ currentHSLuv = <<INIT_HUE, INIT_SAT, INIT_LIG>>
    /\ baseColour = undefined
    /\ panelPalette = undefined
    /\ stateFlags = undefined
    /\ timerRunning = FALSE
    /\ repaintPending = FALSE
    /\ currentState = "none"
    /\ buttonColors = undefined
    /\ drawn = undefined
    /\ mouseHeld = FALSE

\* The script has run to its end: lines 187-188 and 206-209.
panelInit ==
    /\ currentHSLuv = <<INIT_HUE, INIT_SAT, INIT_LIG>>
    /\ baseColour = toColourOfGrid[currentHSLuv]
    /\ panelPalette = paletteOfColour[baseColour]
    /\ stateFlags = [disabled |-> FALSE, clicked |-> FALSE, hover |-> FALSE,
                     focus |-> FALSE, forceFocus |-> FALSE]
    /\ timerRunning = FALSE
    /\ repaintPending = TRUE
    /\ currentState = "none"
    /\ buttonColors = undefined
    /\ drawn = undefined
    /\ mouseHeld = FALSE

onDisableControl(value) ==
    /\ stateFlags' = [stateFlags EXCEPT !.disabled = value]
    /\ repaintPending' = TRUE
    /\ UNCHANGED <<currentHSLuv, baseColour, panelPalette, timerRunning,
                   currentState, buttonColors, drawn, mouseHeld>>

onFocusDemoControl(value) ==
    /\ stateFlags' = [stateFlags EXCEPT !.forceFocus = value]
    /\ repaintPending' = TRUE
    /\ UNCHANGED <<currentHSLuv, baseColour, panelPalette, timerRunning,
                   currentState, buttonColors, drawn, mouseHeld>>

\* updateAll without its second statement: the palette of the colour before.
updateAll_stalePalette(newHSLuv) ==
    /\ baseColour' = toColourOfGrid[newHSLuv]
    /\ panelPalette' = panelPalette
    /\ repaintPending' = TRUE

\* updateAll, run with currentHSLuv already set to newHSLuv.
updateAll(newHSLuv) ==
    /\ baseColour' = toColourOfGrid[newHSLuv]
    /\ panelPalette' = paletteOfColour[baseColour']
    /\ repaintPending' = TRUE

onHueControl(value) ==
    /\ currentHSLuv' = [currentHSLuv EXCEPT ![1] = Mul(value, N(360))]
    /\ updateAll(currentHSLuv')
    /\ UNCHANGED <<stateFlags, timerRunning, currentState, buttonColors, drawn,
                   mouseHeld>>

onSatControl(value) ==
    /\ currentHSLuv' = [currentHSLuv EXCEPT ![2] = Mul(value, N(100))]
    /\ updateAll(currentHSLuv')
    /\ UNCHANGED <<stateFlags, timerRunning, currentState, buttonColors, drawn,
                   mouseHeld>>

onLightControl(value) ==
    /\ currentHSLuv' = [currentHSLuv EXCEPT ![3] = Mul(value, N(100))]
    /\ updateAll(currentHSLuv')
    /\ UNCHANGED <<stateFlags, timerRunning, currentState, buttonColors, drawn,
                   mouseHeld>>

\* The key codes the panel consumes (line 204).
KeyCodes == {32, 13}
\* The events of the key press callback: a focus change, or a key.
KeyEvents ==
    [isFocusChange : {TRUE}, hasFocus : BOOLEAN, keyCode : {0}]
    \cup [isFocusChange : {FALSE}, hasFocus : {FALSE}, keyCode : KeyCodes]

\* The key press callback without the test of the disabled flag.
keyPressCallback_ignoresDisabled(event) ==
    IF event.isFocusChange
    THEN /\ stateFlags' = [stateFlags EXCEPT !.focus = event.hasFocus]
         /\ repaintPending' = TRUE
         /\ UNCHANGED <<currentHSLuv, baseColour, panelPalette, timerRunning,
                        currentState, buttonColors, drawn, mouseHeld>>
    ELSE /\ stateFlags' = [stateFlags EXCEPT !.clicked = TRUE]
         /\ repaintPending' = TRUE
         /\ timerRunning' = TRUE
         /\ UNCHANGED <<currentHSLuv, baseColour, panelPalette,
                        currentState, buttonColors, drawn, mouseHeld>>

keyPressCallback(event) ==
    IF event.isFocusChange
    THEN /\ stateFlags' = [stateFlags EXCEPT !.focus = event.hasFocus]
         /\ repaintPending' = TRUE
         /\ UNCHANGED <<currentHSLuv, baseColour, panelPalette, timerRunning,
                        currentState, buttonColors, drawn, mouseHeld>>
    ELSE IF ~stateFlags.disabled /\ (event.keyCode = 32 \/ event.keyCode = 13)
    THEN /\ stateFlags' = [stateFlags EXCEPT !.clicked = TRUE]
         /\ repaintPending' = TRUE
         /\ timerRunning' = TRUE
         /\ UNCHANGED <<currentHSLuv, baseColour, panelPalette,
                        currentState, buttonColors, drawn, mouseHeld>>
    ELSE UNCHANGED panelVars

timerCallback ==
    /\ timerRunning
    /\ timerRunning' = FALSE
    /\ stateFlags' = [stateFlags EXCEPT !.clicked = FALSE]
    /\ repaintPending' = TRUE
    /\ UNCHANGED <<currentHSLuv, baseColour, panelPalette,
                   currentState, buttonColors, drawn, mouseHeld>>

\* The events of the mouse callback: a press, a release or neither, with the
\* pointer over the panel (hover 1) or not (hover 0).
MouseEvents ==
    {ev \in [clicked : BOOLEAN, mouseUp : BOOLEAN, hover : {0, 1}] :
        ~(ev.clicked /\ ev.mouseUp)}

\* The pointer: a button goes down only when none is, and up only when one is.
mouseDelivers(event) ==
    /\ event.clicked => ~mouseHeld
    /\ event.mouseUp => mouseHeld
    /\ mouseHeld' = IF event.clicked THEN TRUE
                    ELSE IF event.mouseUp THEN FALSE ELSE mouseHeld

mouseCallback(event) ==
    IF stateFlags.disabled
    THEN UNCHANGED <<currentHSLuv, baseColour, panelPalette, stateFlags,
                     timerRunning, repaintPending, currentState, buttonColors,
                     drawn>>
    ELSE /\ stateFlags' =
              [stateFlags EXCEPT
                 !.clicked = IF event.mouseUp THEN FALSE
                             ELSE IF event.clicked THEN TRUE ELSE @,
                 !.hover = IF event.hover = 0 THEN FALSE
                           ELSE IF event.hover = 1 THEN TRUE ELSE @]
         /\ repaintPending' = TRUE
         /\ UNCHANGED <<currentHSLuv, baseColour, panelPalette, timerRunning,
                        currentState, buttonColors, drawn>>

\* resolveButtonState with hover tested before clicked: the order C2 excludes.
resolveButtonState_hoverFirst(flags) ==
    IF flags.disabled THEN "disabled"
    ELSE IF flags.forceFocus THEN "focus"
    ELSE IF flags.hover THEN "hover"
    ELSE IF flags.clicked THEN "clicked"
    ELSE IF flags.focus THEN "focus"
    ELSE "normal"

resolveButtonState(flags) ==
    IF flags.disabled THEN "disabled"
    ELSE IF flags.forceFocus THEN "focus"
    ELSE IF flags.clicked THEN "clicked"
    ELSE IF flags.hover THEN "hover"
    ELSE IF flags.focus THEN "focus"
    ELSE "normal"

\* The switch of the paint routine: the fill, the outline (focus only), the
\* text colour and the label of the state.
paintSwitch(state, colours) ==
    IF state = "normal"
    THEN [fill |-> colours.normal.background, outline |-> undefined,
          text |-> colours.normal.text, label |-> "Normal"]
    ELSE IF state = "hover"
    THEN [fill |-> colours.hover.background, outline |-> undefined,
          text |-> colours.hover.text, label |-> "Hover"]
    ELSE IF state = "clicked"
    THEN [fill |-> colours.clicked.background, outline |-> undefined,
          text |-> colours.clicked.text, label |-> "Clicked"]
    ELSE IF state = "disabled"
    THEN [fill |-> colours.disabled.background, outline |-> undefined,
          text |-> colours.disabled.text, label |-> "Disabled"]
    ELSE IF state = "focus"
    THEN [fill |-> colours.focus.background, outline |-> colours.focus.outline,
          text |-> colours.focus.text, label |-> "Focus"]
    ELSE undefined

\* The paint routine, run some time after a repaint() asked for it.
paintRoutine ==
    /\ repaintPending
    /\ repaintPending' = FALSE
    /\ panelPalette' = IF panelPalette = undefined THEN paletteOfColour[baseColour]
                       ELSE panelPalette
    /\ currentState' = resolveButtonState(stateFlags)
    /\ buttonColors' = panelPalette'
    /\ drawn' = paintSwitch(currentState', buttonColors')
    /\ UNCHANGED <<currentHSLuv, baseColour, stateFlags, timerRunning, mouseHeld>>

genIdle ==
    /\ genPc = "idle"
    /\ genBase = undefined
    /\ genPrimary = undefined
    /\ genStates = undefined
    /\ genPalette = undefined
libIdle ==
    /\ libFn = "none"
    /\ libArg = undefined
    /\ libPc = "idle"
    /\ libMaxC = <<>>
    /\ libLog = <<>>
    /\ libOut = undefined
thIdle ==
    /\ thPc = undefined
    /\ thArg = undefined
    /\ thBounds = undefined
    /\ thMin = undefined
    /\ loopC = 0
    /\ loopI = 0

Init == panelInit /\ genIdle /\ libIdle /\ thIdle

Next ==
    \/ \E value \in BOOLEAN : onDisableControl(value) /\ UNCHANGED <<genVars, libVars, thVars>>
    \/ \E value \in BOOLEAN : onFocusDemoControl(value) /\ UNCHANGED <<genVars, libVars, thVars>>
    \/ \E value \in HueKnobValues : onHueControl(value) /\ UNCHANGED <<genVars, libVars, thVars>>
    \/ \E value \in SatKnobValues : onSatControl(value) /\ UNCHANGED <<genVars, libVars, thVars>>
    \/ \E value \in LightKnobValues : onLightControl(value) /\ UNCHANGED <<genVars, libVars, thVars>>
    \/ \E event \in KeyEvents : keyPressCallback(event) /\ UNCHANGED <<genVars, libVars, thVars>>
    \/ timerCallback /\ UNCHANGED <<genVars, libVars, thVars>>
    \/ \E event \in MouseEvents :
          mouseDelivers(event) /\ mouseCallback(event)
          /\ UNCHANGED <<genVars, libVars, thVars>>
    \/ paintRoutine /\ UNCHANGED <<genVars, libVars, thVars>>

Spec == Init /\ [][Next]_vars

\* A started timer fires: the 150 ms of startTimer pass, and the timer
\* callback runs, however many other callbacks run meanwhile.
SpecFair ==
    Spec /\ WF_vars(timerCallback /\ UNCHANGED <<genVars, libVars, thVars>>)

(***************************************************************************)
(* Calls of generateButtonPalette, statement by statement                  *)
(***************************************************************************)
\* The base colours handed to generateButtonPalette: the colour of the
\* initial knobs, greys, the corners of the colour cube, a translucent one.
SampleColours ==
    {<<213, 61, 105, 255>>, <<176, 176, 176, 255>>, <<40, 40, 40, 255>>,
     <<0, 0, 0, 255>>, <<255, 255, 255, 255>>, <<255, 0, 0, 255>>,
     <<0, 0, 255, 255>>, <<213, 61, 105, 128>>}

\* The derivation of lines 63-103 is a function of primary alone: primaries on
\* and beside the thresholds of its rules (80, 20, 35, 15, 60), and hues whose
\* complement wraps (fromColour returns hues from 0 to 360, both included).
GridHues == {Zero, N(180), N(200), N(359), N(360)}
GridSats == {Zero, N(20), F(3499, -2), N(35), N(75), N(100)}
GridLights ==
    {Zero, N(5), F(1999, -2), N(20), N(50), N(60), F(6001, -2), N(70),
     F(7999, -2), N(80), F(8001, -2), N(100)}
PrimaryGrid == GridHues \X GridSats \X GridLights

\* A call is either of a sample colour, about to run line 61, or has a
\* primary of the grid and is about to run the derivation.
genInit ==
    /\ genStates = undefined
    /\ genPalette = undefined
    /\ \/ genPc = "convert" /\ genBase \in SampleColours /\ genPrimary = undefined
       \/ genPc = "derive" /\ genBase = undefined /\ genPrimary \in PrimaryGrid

\* 1. Convert base uint32 to HSLuv [H, S, L]
genConvert ==
    /\ genPc = "convert"
    /\ genPrimary' = fromColour(genBase)
    /\ genPc' = "derive"
    /\ UNCHANGED <<genBase, genStates, genPalette>>

\* The clones and the rules from -- Hover -- to -- Focus Outline --.
genDerive ==
    /\ genPc = "derive"
    /\ genStates' = deriveStates(genPrimary)
    /\ genPc' = IF genBase = undefined THEN "derived" ELSE "build"
    /\ UNCHANGED <<genBase, genPrimary, genPalette>>

\* 3. Build Palette, and return it.
genBuild ==
    /\ genPc = "build"
    /\ genPalette' = buildPalette(genBase, genStates)
    /\ genPc' = "done"
    /\ UNCHANGED <<genBase, genPrimary, genStates>>

InitGen == panelIdle /\ genInit /\ libIdle /\ thIdle

NextGen ==
    \/ genConvert /\ UNCHANGED <<panelVars, libVars, thVars>>
    \/ genDerive /\ UNCHANGED <<panelVars, libVars, thVars>>
    \/ genBuild /\ UNCHANGED <<panelVars, libVars, thVars>>

SpecGen == InitGen /\ [][NextGen]_vars

\* The derivation has run on genPrimary.
genDerived == genPc \in {"derived", "build", "done"}

\* A number within [lo, hi].
Within(x, lo, hi) == IsNum(x) /\ Ge(x, lo) /\ Le(x, hi)

(***************************************************************************)
(* The claims                                                              *)
(***************************************************************************)

\* C1: for a base colour of saturation below 35 and any lightness in
\* [0, 100], the disabled entry is at least 15 away from the base in
\* lightness after the low-saturation correction.
C1_DisabledDistinct ==
    (genDerived /\ Lt(genPrimary[2], N(35)) /\ Within(genPrimary[3], Zero, N(100)))
    => Ge(MathAbs(Sub(genStates.disabled[3], genPrimary[3])), N(15))

\* C1: the call on the grey (176, 176, 176): its saturation is below 35, its
\* lightness between 60 and 80, and its disabled lightness less than 15 away.
C1_GreyTooClose ==
    /\ genPc = "done"
    /\ genBase = <<176, 176, 176, 255>>
    /\ Lt(genPrimary[2], N(35))
    /\ Lt(MathAbs(Sub(genStates.disabled[3], genPrimary[3])), N(15))

\* The flags in the order of their priority, and the state each stands for.
FlagOrder == <<"disabled", "forceFocus", "clicked", "hover", "focus">>
StateOfFlag(f) == IF f = "forceFocus" THEN "focus" ELSE f
FirstSetFlag(flags) ==
    CHOOSE i \in 1..5 :
        flags[FlagOrder[i]] /\ \A j \in 1..(i - 1) : ~flags[FlagOrder[j]]
PriorityState(flags) ==
    IF \E i \in 1..5 : flags[FlagOrder[i]]
    THEN StateOfFlag(FlagOrder[FirstSetFlag(flags)])
    ELSE "normal"

\* C2: whatever the five flags are, the state a paint resolves is that of the
\* first set flag in the order disabled > forceFocus > clicked > hover > focus
\* (forceFocus and focus both "focus"), "normal" exactly when none is set; it
\* is a function of the current flags alone, and resolving leaves them as
\* they are.
C2_PriorityOrder ==
    [][(repaintPending /\ ~repaintPending')
       => /\ stateFlags' = stateFlags
          /\ currentState' = PriorityState(stateFlags)
          /\ (currentState' = "normal") <=> (\A i \in 1..5 : ~stateFlags[FlagOrder[i]])]_vars

\* C2: a paint has resolved "clicked" with clicked, hover and focus all set.
C2_ClickedOverHover ==
    /\ ~repaintPending
    /\ currentState = "clicked"
    /\ stateFlags.clicked /\ stateFlags.hover /\ stateFlags.focus

\* C4: after any sequence of knob callbacks the palette stored on the panel is
\* generateButtonPalette(HSLuv.toColour(currentHSLuv)) for the current
\* currentHSLuv, and the palette a paint has read is, whole, the palette of one
\* base colour.
C4_PaletteOfCurrent ==
    /\ baseColour = toColourOfGrid[currentHSLuv]
    /\ panelPalette = paletteOfColour[toColourOfGrid[currentHSLuv]]
    /\ buttonColors # undefined
         => \E g \in KnobGrid : buttonColors = paletteOfColour[toColourOfGrid[g]]

\* C4: the knobs have moved the colour away from the initial one, and a paint
\* has read the new palette.
C4_RepaintedAfterKnob ==
    /\ currentHSLuv # <<INIT_HUE, INIT_SAT, INIT_LIG>>
    /\ ~repaintPending
    /\ buttonColors = panelPalette
    /\ buttonColors # paletteOfColour[toColourOfGrid[<<INIT_HUE, INIT_SAT, INIT_LIG>>]]

\* The base colour of the initial knobs: HSLuv.toColour([0, 75, 50]).
DefaultBase == <<213, 61, 105, 255>>

\* The hue opposite h, for 0 <= h <= 360.
Complement(h) ==
    IF Ge(Add(h, N(180)), N(360)) THEN Sub(Add(h, N(180)), N(360))
    ELSE Add(h, N(180))

\* C6, as the code has it: the focus outline has hue (focus.H + 180) mod 360,
\* saturation exactly 100 and lightness 20 if the primary's L > 60, 90
\* otherwise (L = 60 gives 90, L = 60.01 gives 20), the primary being the
\* triple fromColour returns for the base colour; for the default base colour
\* that triple is about (0.28, 74.75, 50.11), so the outline is about
\* (180.28, 100, 90), and its colour is the colour of (180, 100, 90).
C6_OutlineRule ==
    /\ genDerived =>
         /\ genStates.focusOutline[1] = Complement(genStates.focus[1])
         /\ genStates.focusOutline[2] = N(100)
         /\ genStates.focusOutline[3] =
              (IF Gt(genPrimary[3], N(60)) THEN N(20) ELSE N(90))
         /\ genPrimary[3] = N(60) => genStates.focusOutline[3] = N(90)
         /\ genPrimary[3] = F(6001, -2) => genStates.focusOutline[3] = N(20)
         /\ genPrimary = <<Zero, N(75), N(50)>>
              => genStates.focusOutline = <<N(180), N(100), N(90)>>
    /\ (genPc = "done" /\ genBase = DefaultBase) =>
         /\ Gt(genStates.focusOutline[1], N(180))
         /\ Lt(genStates.focusOutline[1], N(181))
         /\ genStates.focusOutline[2] = N(100)
         /\ genStates.focusOutline[3] = N(90)
         /\ genPalette.focus.outline = toColour(<<N(180), N(100), N(90)>>)

\* C6: the call on the default base colour has returned, its outline hue off
\* 180.
C6_DefaultBaseDone ==
    /\ genPc = "done"
    /\ genBase = DefaultBase
    /\ genStates.focusOutline[1] # N(180)

\* C6, as stated: the rule, and the call on the default base (H=0, S=75,
\* L=50), that is on the colour HSLuv.toColour makes of it, gives the outline
\* (180, 100, 90).
C6_DefaultOutlineExact ==
    genDerived =>
      /\ genStates.focusOutline[1] = Complement(genStates.focus[1])
      /\ genStates.focusOutline[2] = N(100)
      /\ genStates.focusOutline[3] =
           (IF Gt(genPrimary[3], N(60)) THEN N(20) ELSE N(90))
      /\ (genPc \in {"build", "done"} /\ genBase = DefaultBase)
           => genStates.focusOutline = <<N(180), N(100), N(90)>>

\* The lightness of the disabled entry before the fix, and when the fix
\* applies.
DisabledHalf(p) == Add(Mul(p[3], HALF), N(25))
DisabledTooClose(p) == Lt(MathAbs(Sub(DisabledHalf(p), p[3])), N(15))

\* C7: the disabled entry has the hue of the base, saturation exactly 20 and
\* lightness base.L * 0.5 + 25, 20 more exactly when base.S < 35 and
\* |(base.L * 0.5 + 25) - base.L| < 15; with base.S >= 35 never.
C7_DisabledRule ==
    genDerived =>
      /\ genStates.disabled[1] = genPrimary[1]
      /\ genStates.disabled[2] = N(20)
      /\ (Lt(genPrimary[2], N(35)) /\ DisabledTooClose(genPrimary))
           => genStates.disabled[3] = Add(DisabledHalf(genPrimary), N(20))
      /\ ~(Lt(genPrimary[2], N(35)) /\ DisabledTooClose(genPrimary))
           => genStates.disabled[3] = DisabledHalf(genPrimary)
      /\ Ge(genPrimary[2], N(35)) => genStates.disabled[3] = DisabledHalf(genPrimary)

\* C7: a primary of saturation 35 and lightness 50 has been derived: the fix
\* would apply were the saturation lower.
C7_AtThirtyFive ==
    /\ genDerived
    /\ genPrimary[2] = N(35)
    /\ genPrimary[3] = N(50)
    /\ DisabledTooClose(genPrimary)
    /\ genStates.disabled[3] = N(50)

\* C8: the hover entry keeps H and S of the base and has L = base.L - 10 if
\* base.L > 80, base.L + 10 otherwise; the focus background is the hover
\* entry in all three components.
C8_HoverRule ==
    genDerived =>
      /\ genStates.hover[1] = genPrimary[1]
      /\ genStates.hover[2] = genPrimary[2]
      /\ Gt(genPrimary[3], N(80)) => genStates.hover[3] = Sub(genPrimary[3], N(10))
      /\ ~Gt(genPrimary[3], N(80)) => genStates.hover[3] = Add(genPrimary[3], N(10))
      /\ genStates.focus = genStates.hover

\* C8: a primary of lightness exactly 80 has been derived: its hover is 90.
C8_AtEighty ==
    /\ genDerived
    /\ genPrimary[3] = N(80)
    /\ genStates.hover[3] = N(90)
    /\ genStates.focus[3] = N(90)

\* C9: the clicked entry keeps H and S of the base and has L = base.L + 15 if
\* base.L < 20, base.L - 15 otherwise: base.L = 20 is darkened to 5.
C9_ClickedRule ==
    genDerived =>
      /\ genStates.clicked[1] = genPrimary[1]
      /\ genStates.clicked[2] = genPrimary[2]
      /\ Lt(genPrimary[3], N(20)) => genStates.clicked[3] = Add(genPrimary[3], N(15))
      /\ ~Lt(genPrimary[3], N(20)) => genStates.clicked[3] = Sub(genPrimary[3], N(15))
      /\ genPrimary[3] = N(20) => genStates.clicked[3] = N(5)

\* C9: a primary of lightness exactly 20 has been derived: its clicked is 5.
C9_AtTwenty ==
    /\ genDerived
    /\ genPrimary[3] = N(20)
    /\ genStates.clicked[3] = N(5)

\* The triple an entry of the palette is the background of.
TripleOf(s) == IF s = "normal" THEN "primary" ELSE s

\* C10: the palette has entries for exactly the five states normal, hover,
\* clicked, disabled and focus; the text of each is the colour of pure black
\* (0,0,0) when the relative luminance of the entry's own PUHSL background is
\* above 0.5, and the colour of pure white (0,0,100) otherwise.
C10_TextOfOwnBackground ==
    genPc = "done" =>
      /\ DOMAIN genPalette = {"normal", "hover", "clicked", "disabled", "focus"}
      /\ \A s \in DOMAIN genPalette :
           genPalette[s].text =
             (IF Gt(getLuminance(genStates[TripleOf(s)]), HALF)
              THEN <<0, 0, 0, 255>> ELSE <<255, 255, 255, 255>>)

\* C10: the palette of the grey (176, 176, 176) has white text on the normal
\* entry and black text on the lighter hover entry.
C10_TextsDiffer ==
    /\ genPc = "done"
    /\ genBase = <<176, 176, 176, 255>>
    /\ genPalette.normal.text = <<255, 255, 255, 255>>
    /\ genPalette.hover.text = <<0, 0, 0, 255>>

\* C18: for a base with L and S in [0, 100], hover.L and focus.L lie in
\* [10, 90], clicked.L in [5, 85], disabled.L in [25, 85], the outline's L is
\* 20 or 90 and its H in [0, 360), and every derived S lies in [0, 100].
C18_DerivedRanges ==
    (genDerived /\ Within(genPrimary[2], Zero, N(100))
                /\ Within(genPrimary[3], Zero, N(100)))
    => /\ Within(genStates.hover[3], N(10), N(90))
       /\ Within(genStates.focus[3], N(10), N(90))
       /\ Within(genStates.clicked[3], N(5), N(85))
       /\ Within(genStates.disabled[3], N(25), N(85))
       /\ genStates.focusOutline[3] \in {N(20), N(90)}
       /\ Within(genStates.focusOutline[1], Zero, N(360))
       /\ genStates.focusOutline[1] # N(360)
       /\ \A s \in {"hover", "clicked", "disabled", "focus", "focusOutline"} :
            Within(genStates[s][2], Zero, N(100))

\* C18: a primary of lightness 100 and hue 180 has been derived: hover at 90,
\* clicked at 85, the outline's hue wrapped to 0.
C18_AtTheEnds ==
    /\ genDerived
    /\ genPrimary[1] = N(180)
    /\ genPrimary[3] = N(100)
    /\ genStates.hover[3] = N(90)
    /\ genStates.clicked[3] = N(85)
    /\ genStates.focusOutline[1] = Zero

(***************************************************************************)
(* Calls of the functions of HSLuv.js                                      *)
(***************************************************************************)
\* Lightnesses at and beside the guards of hsluvToLch and lchToHsluv (EPS and
\* 99.99999), and where getBounds has no line to give (below about 9e-8).
LibLights ==
    {F(0 - 5, 0), Zero, F(1, -11), F(1, -9), F(5, -8), N(50), F(99999995, -6),
     N(100)}

\* The arguments [H, S, L] of hsluvToLch and [L, C, H] of lchToHsluv.
HslArgs == {Zero, N(120)} \X {Zero, N(50), N(150)} \X LibLights
LchArgs == LibLights \X {Zero, N(30)} \X {Zero, N(120)}

\* hsluvToLch up to the call of maxChromaForLH: it returns before it for a
\* lightness outside [EPS, 99.99999].
hsluvToLchEnter ==
    /\ libFn = "hsluvToLch"
    /\ libPc = "call"
    /\ IF Lt(sanitize(libArg[3]), EPS) \/ Gt(sanitize(libArg[3]), LMax)
       THEN /\ libOut' = <<sanitize(libArg[3]), Zero, sanitize(libArg[1])>>
            /\ libPc' = "done"
            /\ UNCHANGED libMaxC
       ELSE /\ libMaxC' = <<maxChromaForLH(sanitize(libArg[3]),
                                         sanitize(libArg[1]))>>
            /\ libPc' = "maxC"
            /\ UNCHANGED libOut
    /\ UNCHANGED <<libFn, libArg, libLog>>

\* hsluvToLch from the return of maxChromaForLH on.
hsluvToLchReturn ==
    /\ libFn = "hsluvToLch"
    /\ libPc = "maxC"
    /\ libOut' = hsluvToLchOf(sanitize(libArg[1]), sanitize(libArg[2]),
                              sanitize(libArg[3]), libMaxC[1])
    /\ libPc' = "done"
    /\ UNCHANGED <<libFn, libArg, libMaxC, libLog>>

\* lchToHsluv up to the call of maxChromaForLH.
lchToHsluvEnter ==
    /\ libFn = "lchToHsluv"
    /\ libPc = "call"
    /\ IF Lt(libArg[1], EPS) \/ Gt(libArg[1], LMax)
       THEN /\ libOut' = <<libArg[3], Zero, libArg[1]>>
            /\ libPc' = "done"
            /\ UNCHANGED libMaxC
       ELSE /\ libMaxC' = <<maxChromaForLH(libArg[1], libArg[3])>>
            /\ libPc' = "maxC"
            /\ UNCHANGED libOut
    /\ UNCHANGED <<libFn, libArg, libLog>>

\* lchToHsluv from the return of maxChromaForLH on.
lchToHsluvReturn ==
    /\ libFn = "lchToHsluv"
    /\ libPc = "maxC"
    /\ libOut' = lchToHsluvOf(libArg[1], libArg[2], libArg[3], libMaxC[1])
    /\ libPc' = "done"
    /\ UNCHANGED <<libFn, libArg, libMaxC, libLog>>

\* Triples outside the domain of PUHSL, and inside it: NaN, the infinities,
\* a negative hue, a hue beyond 360, a saturation and a lightness beyond 100,
\* a lightness for which getBounds has no line.
WildTriples ==
    {<<NaN, NaN, NaN>>, <<PosInf, NegInf, PosInf>>,
     <<F(0 - 90, 0), N(150), N(50)>>, <<N(400), N(50), N(120)>>,
     <<Zero, N(75), N(50)>>, <<N(120), N(100), F(1, -9)>>,
     <<N(250), N(100), N(60)>>, <<Zero, Zero, F(0 - 10, 0)>>}

\* Arguments [H, S, L, A] of toColourWithAlpha, A an alpha in [0, 1].
HslaArgs == {<<Zero, N(75), N(50), a>> : a \in {Zero, HALF, ONE}}

\* Device colours [r, g, b], each channel in [0, 1].
RgbArgs ==
    {<<Zero, Zero, Zero>>, <<ONE, ONE, ONE>>, <<ONE, Zero, Zero>>,
     <<Zero, ONE, Zero>>, <<Zero, Zero, ONE>>, <<ONE, ONE, Zero>>,
     <<HALF, HALF, HALF>>, <<F(2, -1), F(4, -1), F(6, -1)>>,
     <<F(835, -3), F(239, -3), F(412, -3)>>, <<F(1, -3), F(1, -3), F(1, -3)>>,
     <<F(1, -9), F(2, -9), F(1, -9)>>, <<ONE, ONE, F(999, -3)>>,
     <<F(2, -2), F(1, -2), F(9, -1)>>, <<F(99, -2), F(1, -2), F(1, -2)>>}

\* Lightnesses handed to getBounds: where no line is defined (0, and below
\* about 9e-8), ordinary ones, and one so large that intercepts overflow.
BoundsLights ==
    {Zero, F(1, -9), F(1, -7), N(1), N(8), N(50), N(100), F(1, 100), NaN}

\* Arguments [H, S, L] of invertHue, the hue in [0, 360).
HueArgs ==
    {<<h, N(50), N(40)>> : h \in {Zero, N(90), N(180), F(1805, -1), N(270),
                                  F(35999, -2)}}

\* Base colours of different alpha.
AlphaColours == {<<213, 61, 105, 255>>, <<213, 61, 105, 128>>}

\* The colours of largest hue: fromColour gives them a hue just below 360.
NearFullTurn == {<<184, 57, 93, 255>>, <<114, 66, 76, 255>>}

\* The calls made: a function of HSLuv.js and its argument.
LibCalls ==
    ({"hsluvToLch"} \X HslArgs) \cup ({"lchToHsluv"} \X LchArgs)
    \cup ({"hsluvToRgb", "toVec4", "toColour"} \X WildTriples)
    \cup ({"toColourWithAlpha"} \X HslaArgs)
    \cup ({"fromColour", "fromColourWithAlpha"}
          \X (SampleColours \cup NearFullTurn))
    \cup ({"roundTrip"} \X RgbArgs)
    \cup ({"getBounds"} \X BoundsLights)
    \cup ({"invertHue"} \X HueArgs)
    \cup ({"generateButtonPalette"} \X AlphaColours)

libInit ==
    /\ \E call \in LibCalls : libFn = call[1] /\ libArg = call[2]
    /\ libPc = "call"
    /\ libMaxC = <<>>
    /\ libLog = <<>>
    /\ libOut = undefined

\* The call of fn runs to its return with the result.
Returns(fn, result) ==
    /\ libFn = fn
    /\ libPc = "call"
    /\ libOut' = result
    /\ libPc' = "done"
    /\ UNCHANGED <<libFn, libArg, libMaxC, libLog>>

hsluvToRgbCall == Returns("hsluvToRgb", hsluvToRgb(libArg))
toVec4Call == Returns("toVec4", toVec4(libArg))
toColourCall == Returns("toColour", toColour(libArg))
toColourWithAlphaCall == Returns("toColourWithAlpha", toColourWithAlpha(libArg))
fromColourCall == Returns("fromColour", fromColour(libArg))
fromColourWithAlphaCall ==
    Returns("fromColourWithAlpha", fromColourWithAlpha(libArg))
generateButtonPaletteCall ==
    Returns("generateButtonPalette", generateButtonPalette(libArg))
invertHueCall == Returns("invertHue", invertHue(libArg))

\* rgbToHsluv and then hsluvToRgb of what it returned: both results.
roundTripCall ==
    Returns("roundTrip",
            The({ <<hsluv, hsluvToRgb(hsluv)>> : hsluv \in {rgbToHsluv(libArg)} }))

\* invertHue of what invertHue returned.
invertHueAgain ==
    /\ libFn = "invertHue"
    /\ libPc = "done"
    /\ libOut' = invertHue(libOut)
    /\ libPc' = "twice"
    /\ UNCHANGED <<libFn, libArg, libMaxC, libLog>>

\* getBounds up to its loop: result = [].
getBoundsEnter ==
    /\ libFn = "getBounds"
    /\ libPc = "call"
    /\ libOut' = <<>>
    /\ libPc' = "push"
    /\ UNCHANGED <<libFn, libArg, libMaxC, libLog>>

\* One call of pushLine_safe in the loop of getBounds and the push that
\* follows it: the calls are for row 0 t = 0, row 0 t = 1, row 1 t = 0, ...
getBoundsPush ==
    /\ libFn = "getBounds"
    /\ libPc = "push"
    /\ Len(libLog) < 6
    /\ libLog' = Append(libLog,
                        pushLine_safe(BoundsMatrix[Len(libLog) \div 2 + 1][1],
                                      BoundsMatrix[Len(libLog) \div 2 + 1][2],
                                      BoundsMatrix[Len(libLog) \div 2 + 1][3],
                                      libArg, N(Len(libLog) % 2)))
    /\ libOut' = IF libLog'[Len(libLog')] # null
                 THEN Append(libOut, libLog'[Len(libLog')]) ELSE libOut
    /\ UNCHANGED <<libFn, libArg, libPc, libMaxC>>

\* The loop of getBounds is over: return result.
getBoundsReturn ==
    /\ libFn = "getBounds"
    /\ libPc = "push"
    /\ Len(libLog) = 6
    /\ libPc' = "done"
    /\ UNCHANGED <<libFn, libArg, libMaxC, libLog, libOut>>

InitLib == panelIdle /\ genIdle /\ libInit /\ thIdle

NextLib ==
    \/ hsluvToLchEnter /\ UNCHANGED <<panelVars, genVars, thVars>>
    \/ hsluvToLchReturn /\ UNCHANGED <<panelVars, genVars, thVars>>
    \/ lchToHsluvEnter /\ UNCHANGED <<panelVars, genVars, thVars>>
    \/ lchToHsluvReturn /\ UNCHANGED <<panelVars, genVars, thVars>>
    \/ hsluvToRgbCall /\ UNCHANGED <<panelVars, genVars, thVars>>
    \/ toVec4Call /\ UNCHANGED <<panelVars, genVars, thVars>>
    \/ toColourCall /\ UNCHANGED <<panelVars, genVars, thVars>>
    \/ toColourWithAlphaCall /\ UNCHANGED <<panelVars, genVars, thVars>>
    \/ fromColourCall /\ UNCHANGED <<panelVars, genVars, thVars>>
    \/ fromColourWithAlphaCall /\ UNCHANGED <<panelVars, genVars, thVars>>
    \/ generateButtonPaletteCall /\ UNCHANGED <<panelVars, genVars, thVars>>
    \/ roundTripCall /\ UNCHANGED <<panelVars, genVars, thVars>>
    \/ invertHueCall /\ UNCHANGED <<panelVars, genVars, thVars>>
    \/ invertHueAgain /\ UNCHANGED <<panelVars, genVars, thVars>>
    \/ getBoundsEnter /\ UNCHANGED <<panelVars, genVars, thVars>>
    \/ getBoundsPush /\ UNCHANGED <<panelVars, genVars, thVars>>
    \/ getBoundsReturn /\ UNCHANGED <<panelVars, genVars, thVars>>

SpecLib == InitLib /\ [][NextLib]_vars

(***************************************************************************)
(* Claims about the functions of HSLuv.js                                  *)
(***************************************************************************)
\* C5: whenever maxChromaForLH returns its sentinel 1e10 to hsluvToLch or to
\* lchToHsluv, the caller falls back to zero: the chroma hsluvToLch returns,
\* and the saturation lchToHsluv returns, is 0, whatever S or C was given.
C5_SentinelFallsBack ==
    (libPc = "done" /\ libFn \in {"hsluvToLch", "lchToHsluv"}
       /\ libMaxC = <<F(1, 10)>>)
    => libOut[2] = Zero

\* hsluvToLch([0, 50, 1e-9]) got the sentinel and returned half of it as the
\* chroma.
C5_SentinelScaled ==
    /\ libPc = "done"
    /\ libFn = "hsluvToLch"
    /\ libArg = <<Zero, N(50), F(1, -9)>>
    /\ libMaxC = <<F(1, 10)>>
    /\ libOut = <<F(1, -9), F(5, 9), Zero>>

\* A lightness below EPS (1e-10) or above 99.99999.
AtAnEnd(L) == Lt(L, F(1, -10)) \/ Gt(L, F(9999999, -5))

\* C11: for a lightness below 1e-10 or above 99.99999, hsluvToLch returns
\* [L, 0, H] and lchToHsluv returns [H, 0, L], with L and H as given, whatever
\* S or C is, and neither calls maxChromaForLH.
C11_EndsForceZero ==
    libPc = "done" =>
      /\ (libFn = "hsluvToLch" /\ AtAnEnd(libArg[3]))
         => (libOut = <<libArg[3], Zero, libArg[1]>> /\ libMaxC = <<>>)
      /\ (libFn = "lchToHsluv" /\ AtAnEnd(libArg[1]))
         => (libOut = <<libArg[3], Zero, libArg[1]>> /\ libMaxC = <<>>)

\* hsluvToLch returned from a saturation of 150 at lightness 99.999995, and
\* lchToHsluv from a chroma of 30 at lightness 1e-11.
C11_AtBothEnds ==
    /\ libPc = "done"
    /\ \/ (libFn = "hsluvToLch" /\ libArg = <<N(120), N(150), F(99999995, -6)>>)
       \/ (libFn = "lchToHsluv" /\ libArg = <<F(1, -11), N(30), N(120)>>)

\* The backgrounds, texts and outline of a palette.
ColoursOf(palette) ==
    {palette[state][part] : state \in DOMAIN palette, part \in {"background", "text"}}
    \cup {palette.focus.outline}

\* C12: alpha passes through unchanged: the colour of toColourWithAlpha([H, S,
\* L, A]) has alpha A (to the nearest of the 256 levels of a colour),
\* fromColourWithAlpha(colour) returns the colour's alpha as its fourth
\* component, and every colour of the palette of a base colour has the base
\* colour's alpha.
C12_AlphaPassesThrough ==
    libPc = "done" =>
      /\ libFn = "toColourWithAlpha"
         => Le(Abs(Sub(Div(N(libOut[4]), N(255)), libArg[4])), F(2, -3))
      /\ libFn = "fromColourWithAlpha"
         => libOut[4] = Div(N(libArg[4]), N(255))
      /\ libFn = "generateButtonPalette"
         => \A colour \in ColoursOf(libOut) : colour[4] = libArg[4]

\* The palette of a half-transparent base colour, with an opaque hover
\* background.
C12_OpaqueHover ==
    /\ libPc = "done"
    /\ libFn = "generateButtonPalette"
    /\ libArg = <<213, 61, 105, 128>>
    /\ libOut.normal.background[4] = 128
    /\ libOut.hover.background[4] = 255

\* C13: whatever the input (NaN, infinite and out-of-domain values included),
\* fromColour and fromColourWithAlpha return H in [0, 360), S in [0, 100] and
\* L in [0, 100], and hsluvToRgb, toVec4 and toColour return every device
\* channel in [0, 1] (for the colour of toColour: every byte in 0..255).
C13_DocumentedDomains ==
    libPc = "done" =>
      /\ libFn \in {"fromColour", "fromColourWithAlpha"}
         => /\ Within(libOut[1], Zero, N(360)) /\ Lt(libOut[1], N(360))
            /\ Within(libOut[2], Zero, N(100))
            /\ Within(libOut[3], Zero, N(100))
      /\ libFn \in {"hsluvToRgb", "toVec4"}
         => \A ch \in DOMAIN libOut : Within(libOut[ch], Zero, ONE)
      /\ libFn = "toColour"
         => \A ch \in DOMAIN libOut : libOut[ch] \in 0..255

\* hsluvToRgb returned from NaNs, and from a lightness of 120.
C13_FromNaN ==
    /\ libPc = "done"
    /\ libFn = "hsluvToRgb"
    /\ libArg \in {<<NaN, NaN, NaN>>, <<N(400), N(50), N(120)>>}
    /\ Len(libOut) = 3

\* C14: for every device colour c with each channel in [0, 1],
\* hsluvToRgb(rgbToHsluv(c)) equals c within 1e-3 on each channel.
C14_RoundTrip ==
    (libPc = "done" /\ libFn = "roundTrip")
    => \A ch \in 1..3 :
         Le(Abs(Sub(libOut[2][ch], libArg[ch])), F(1, -3))

\* Yellow came back with a blue channel above 0.005.
C14_YellowGainsBlue ==
    /\ libPc = "done"
    /\ libFn = "roundTrip"
    /\ libArg = <<ONE, ONE, Zero>>
    /\ libOut[1][2] = N(100)
    /\ Gt(libOut[2][3], F(5, -3))

\* What pushLine_safe works out for the k-th call of getBounds(L), k in 1..6:
\* the row of the matrix and t, then sub2, bottom and the two numerators.
RowOf(k) == BoundsMatrix[(k - 1) \div 2 + 1]
TOf(k) == N((k - 1) % 2)
Sub2Of(L) ==
    sanitize(IF Gt(Cube(Div(Add(L, N(16)), N(116))), F(88564516, -10))
             THEN Cube(Div(Add(L, N(16)), N(116)))
             ELSE Div(L, F(903296296, -6)))
BottomOf(k, L) ==
    sanitize(Add(Mul(Sub(Mul(N(632260), RowOf(k)[3]), Mul(N(126452), RowOf(k)[2])),
                     Sub2Of(L)),
                 Mul(N(126452), TOf(k))))
Top1Of(k, L) ==
    Mul(Sub(Mul(N(284517), RowOf(k)[1]), Mul(N(94839), RowOf(k)[3])), Sub2Of(L))
Top2Of(k, L) ==
    Sub(Mul(Mul(Add(Add(Mul(N(838422), RowOf(k)[3]), Mul(N(769860), RowOf(k)[2])),
                    Mul(N(731718), RowOf(k)[1])), Sub2Of(L)), L),
        Mul(Mul(N(769860), TOf(k)), L))

\* The k-th line of getBounds(L) is undefined.
Undefined(k, L) ==
    \/ Lt(Abs(Sub2Of(L)), F(1, -10))
    \/ Lt(Abs(BottomOf(k, L)), F(1, -10))
    \/ ~IsNum(Div(Top1Of(k, L), BottomOf(k, L)))
    \/ ~IsNum(Div(Top2Of(k, L), BottomOf(k, L)))

\* The defined lines of a log of pushLine_safe results, in their order.
Defined(line) == line # null

\* C15: getBounds(L) returns at most 6 lines, those of the calls row 0 t = 0,
\* row 0 t = 1, row 1 t = 0, ..., row 2 t = 1 in this order with the undefined
\* ones left out; a line is left out exactly when |sub2| < 1e-10 or |bottom| <
\* 1e-10 or the slope or the intercept is not finite, so every line returned
\* has a finite slope and a finite intercept.
C15_BoundsLines ==
    (libPc = "done" /\ libFn = "getBounds") =>
      /\ Len(libOut) <= 6
      /\ Len(libLog) = 6
      /\ libOut = SelectSeq(libLog, Defined)
      /\ \A k \in 1..6 :
           /\ (libLog[k] = null) <=> Undefined(k, sanitize(libArg))
           /\ libLog[k] # null
              => (Len(libLog[k]) = 2 /\ IsNum(libLog[k][1]) /\ IsNum(libLog[k][2]))

\* getBounds returned all six lines for one lightness and none for another.
C15_SixOrNone ==
    /\ libPc = "done"
    /\ libFn = "getBounds"
    /\ \/ (libArg = N(50) /\ Len(libOut) = 6)
       \/ (libArg = F(1, 100) /\ Len(libOut) = 0)

\* C19: for a hue H in [0, 360), invertHue returns a hue in [0, 360) with S
\* and L unchanged, and invertHue of what it returned is the original
\* [H, S, L].
C19_InvertHueInvolution ==
    libFn = "invertHue" =>
      /\ libPc = "done"
         => /\ Ge(libOut[1], Zero) /\ Lt(libOut[1], N(360))
            /\ libOut[2] = libArg[2] /\ libOut[3] = libArg[3]
      /\ libPc = "twice" => libOut = libArg

\* invertHue applied twice to the hue 0 has returned the hue 360.
C19_ZeroBecomesFullTurn ==
    /\ libFn = "invertHue"
    /\ libPc = "twice"
    /\ libArg[1] = Zero
    /\ libOut[1] = N(360)

(***************************************************************************)
(* Claims about the clicked flag of the test panel                         *)
(***************************************************************************)
\* C16: in every reachable state of the panel, if no mouse button is held
\* down on it and no key-activation timer is pending, stateFlags.clicked is
\* false.
C16_ClickedOnlyWhileHeld ==
    (~mouseHeld /\ ~timerRunning) => ~stateFlags.clicked

\* The enabled panel is painted as clicked with no button held and no timer
\* pending.
C16_StuckClicked ==
    /\ ~mouseHeld
    /\ ~timerRunning
    /\ ~stateFlags.disabled
    /\ stateFlags.clicked
    /\ ~repaintPending
    /\ currentState = "clicked"

\* C17: a key press starts the timer only when the disabled flag is false,
\* and it sets stateFlags.clicked with it; a started timer eventually fires:
\* the timer is stopped and stateFlags.clicked is false.
C17_KeyClickEnds ==
    /\ [][(~timerRunning /\ timerRunning')
          => (~stateFlags.disabled /\ stateFlags'.clicked)]_vars
    /\ [][(timerRunning /\ ~timerRunning') => ~stateFlags'.clicked]_vars
    /\ (timerRunning ~> (~timerRunning /\ ~stateFlags.clicked))

\* A key press has set clicked and started the timer, no mouse button held.
C17_TimerPending ==
    /\ timerRunning
    /\ stateFlags.clicked
    /\ ~stateFlags.disabled
    /\ ~mouseHeld

(***************************************************************************)
(* Two invocations of maxChromaForLH at once.  The loop counters c of      *)
(* getBounds and i of maxChromaForLH are not declared local: they are      *)
(* variables of the script, the same for every invocation.  Each step below *)
(* is one pass of a loop or one increment of its counter.                  *)
(***************************************************************************)
Threads == {1, 2}

\* The arguments [L, H] of the invocations, and the pairs of invocations
\* made: the same arguments twice, or different ones.
ThreadArgs == {<<N(50), Zero>>, <<N(8), N(250)>>}
ThreadCalls == {<<<<N(50), Zero>>, <<N(50), Zero>>>>,
                <<<<N(50), Zero>>, <<N(8), N(250)>>>>}

concInit ==
    /\ thArg \in ThreadCalls
    /\ thPc = [t \in Threads |-> "call"]
    /\ thBounds = [t \in Threads |-> <<>>]
    /\ thMin = [t \in Threads |-> Sentinel]
    /\ loopC = 0
    /\ loopI = 0

\* maxChromaForLH calls getBounds: result = [] and c = 0.
getBoundsStart(t) ==
    /\ thPc[t] = "call"
    /\ thBounds' = [thBounds EXCEPT ![t] = <<>>]
    /\ loopC' = 0
    /\ thPc' = [thPc EXCEPT ![t] = "row"]
    /\ UNCHANGED <<thArg, thMin, loopI>>

\* c < 3 and the body of the loop of getBounds for the row m[c].
getBoundsBody(t) ==
    /\ thPc[t] = "row"
    /\ loopC < 3
    /\ thBounds' = [thBounds EXCEPT
                      ![t] = @ \o getBoundsRow(thArg[t][1], BoundsMatrix[loopC + 1])]
    /\ thPc' = [thPc EXCEPT ![t] = "rowNext"]
    /\ UNCHANGED <<thArg, thMin, loopC, loopI>>

\* c = c + 1.
getBoundsNext(t) ==
    /\ thPc[t] = "rowNext"
    /\ loopC' = loopC + 1
    /\ thPc' = [thPc EXCEPT ![t] = "row"]
    /\ UNCHANGED <<thArg, thBounds, thMin, loopI>>

\* c < 3 fails: getBounds returns, and maxChromaForLH sets minLength = 1e10
\* and i = 0.
maxChromaStart(t) ==
    /\ thPc[t] = "row"
    /\ loopC >= 3
    /\ thMin' = [thMin EXCEPT ![t] = Sentinel]
    /\ loopI' = 0
    /\ thPc' = [thPc EXCEPT ![t] = "line"]
    /\ UNCHANGED <<thArg, thBounds, loopC>>

\* i < bounds.length and the body of the loop of maxChromaForLH for bounds[i].
maxChromaBody(t) ==
    /\ thPc[t] = "line"
    /\ loopI < Len(thBounds[t])
    /\ thMin' = [thMin EXCEPT
                   ![t] = maxChromaStep(@, thBounds[t][loopI + 1],
                                        MathToRadians(thArg[t][2]))]
    /\ thPc' = [thPc EXCEPT ![t] = "lineNext"]
    /\ UNCHANGED <<thArg, thBounds, loopC, loopI>>

\* i = i + 1.
maxChromaNext(t) ==
    /\ thPc[t] = "lineNext"
    /\ loopI' = loopI + 1
    /\ thPc' = [thPc EXCEPT ![t] = "line"]
    /\ UNCHANGED <<thArg, thBounds, thMin, loopC>>

\* i < bounds.length fails: return minLength.
maxChromaReturn(t) ==
    /\ thPc[t] = "line"
    /\ loopI >= Len(thBounds[t])
    /\ thPc' = [thPc EXCEPT ![t] = "done"]
    /\ UNCHANGED <<thArg, thBounds, thMin, loopC, loopI>>

InitConc == panelIdle /\ genIdle /\ libIdle /\ concInit

NextConc ==
    \/ \E t \in Threads : getBoundsStart(t) /\ UNCHANGED <<panelVars, genVars, libVars>>
    \/ \E t \in Threads : getBoundsBody(t) /\ UNCHANGED <<panelVars, genVars, libVars>>
    \/ \E t \in Threads : getBoundsNext(t) /\ UNCHANGED <<panelVars, genVars, libVars>>
    \/ \E t \in Threads : maxChromaStart(t) /\ UNCHANGED <<panelVars, genVars, libVars>>
    \/ \E t \in Threads : maxChromaBody(t) /\ UNCHANGED <<panelVars, genVars, libVars>>
    \/ \E t \in Threads : maxChromaNext(t) /\ UNCHANGED <<panelVars, genVars, libVars>>
    \/ \E t \in Threads : maxChromaReturn(t) /\ UNCHANGED <<panelVars, genVars, libVars>>

SpecConc == InitConc /\ [][NextConc]_vars

\* What maxChromaForLH returns for each of the arguments when it runs alone.
maxChromaAlone == [a \in ThreadArgs |-> maxChromaForLH(a[1], a[2])] @@ <<>>

\* C3: the functions are reentrant: of two invocations of maxChromaForLH
\* running at once, in any interleaving, each returns what it returns when it
\* runs alone, with the six lines of getBounds.
C3_Reentrant ==
    \A t \in Threads :
       thPc[t] = "done"
       => (thMin[t] = maxChromaAlone[thArg[t]] /\ Len(thBounds[t]) = 6)

\* An invocation has returned a length that is not the one it returns alone,
\* from fewer lines than the six of its lightness.
C3_RowSkipped ==
    \E t \in Threads :
       /\ thPc[t] = "done"
       /\ Len(thBounds[t]) < 6
       /\ thMin[t] # maxChromaAlone[thArg[t]]

=============================================================================
